---- MODULE Spec2Model ----
(***************************************************************************)
(* Model of run_composio.py: the Meta Ads -> Google Sheets batch job.      *)
(*                                                                         *)
(* Spec       the whole run: main, run_automation and the four remote      *)
(*            calls, with the wall clock ticking between the steps.        *)
(* SpecAgg    the body of the per-campaign try block of                    *)
(*            process_campaign_data, one statement of the summation loop   *)
(*            per step.                                                    *)
(*                                                                         *)
(* Numbers: counters are naturals; spend and frequency are naturals of     *)
(* the smallest unit; a quotient a/b is kept as the pair <<a, b>> so that  *)
(* no rounding is introduced by the model.                                 *)
(***************************************************************************)
EXTENDS Integers, Sequences, FiniteSets, TLC

\* ---------------------------------------------------------------- bounds
MaxCampaigns == 2      \* campaigns in one provider response
MaxInsights  == 2      \* insight records summed in SpecAgg
MaxCount     == 1      \* largest counter value of one insight record
MaxTicks     == 2      \* clock ticks during one run
TicksPerDay  == 2      \* clock resolution

\* ------------------------------------------------------- calendar, clock
IsLeap(y) == (y % 4 = 0 /\ y % 100 # 0) \/ y % 400 = 0

DaysInMonth(y, m) ==
    IF m = 2 THEN (IF IsLeap(y) THEN 29 ELSE 28)
    ELSE IF m \in {4, 6, 9, 11} THEN 30 ELSE 31

\* a date is <<year, month, day>>
NextDate(d) ==
    IF d[3] < DaysInMonth(d[1], d[2]) THEN <<d[1], d[2], d[3] + 1>>
    ELSE IF d[2] < 12 THEN <<d[1], d[2] + 1, 1>>
    ELSE <<d[1] + 1, 1, 1>>

PrevDate(d) ==
    IF d[3] > 1 THEN <<d[1], d[2], d[3] - 1>>
    ELSE IF d[2] > 1 THEN <<d[1], d[2] - 1, DaysInMonth(d[1], d[2] - 1)>>
    ELSE <<d[1] - 1, 12, 31>>

\* a datetime is [date, tod]; datetime - timedelta(days = n)
RECURSIVE MinusDays(_, _)
MinusDays(dt, n) ==
    IF n = 0 THEN dt
    ELSE MinusDays([date |-> PrevDate(dt.date), tod |-> dt.tod], n - 1)

\* strftime("%Y-%m-%d"): the calendar date, the time of day is dropped
StrfDate(dt) == dt.date

\* number of calendar dates in the closed range [since, until]
\* (0 when until is not reached within a fortnight)
RECURSIVE DateCount(_, _, _)
DateCount(since, until, fuel) ==
    IF since = until THEN 1
    ELSE IF fuel = 0 THEN 0
    ELSE LET r == DateCount(NextDate(since), until, fuel - 1)
         IN  IF r = 0 THEN 0 ELSE r + 1

StartDates == { <<2024, 3, 4>>, <<2023, 1, 3>> }

AdvanceClock(dt) ==
    IF dt.tod + 1 < TicksPerDay THEN [dt EXCEPT !.tod = @ + 1]
    ELSE [date |-> NextDate(dt.date), tod |-> 0]

\* time_range of get_campaign_insights
TimeRange(dt) ==
    LET end_date   == dt
        start_date == MinusDays(end_date, 7)
    IN  [since |-> StrfDate(start_date), until |-> StrfDate(end_date)]

\* ------------------------------------------------ insight records, values
Fields == <<"impressions", "clicks", "spend", "reach", "frequency", "conversions">>
FieldSet == {Fields[k] : k \in 1..Len(Fields)}

\* the value stored under a key of an insight record
Absent == [kind |-> "absent", n |-> 0]      \* key missing
Null   == [kind |-> "null",   n |-> 0]      \* key present, value None
Text   == [kind |-> "text",   n |-> 0]      \* key present, non-numeric text
Num(n) == [kind |-> "num",    n |-> n]
Values == {Absent, Null, Text} \cup {Num(n) : n \in 0..MaxCount}

\* insight[key]: no default for a missing key
Get_NoDefault(v) == v

\* insight.get(key, 0)
Get(v) == IF v.kind = "absent" THEN Num(0) ELSE v

\* int(x) / float(x): TypeError on None, ValueError on non-numeric text
ToNumber(v) ==
    IF v.kind = "num" THEN [raised |-> FALSE, n |-> v.n]
    ELSE [raised |-> TRUE, n |-> 0]

ZeroTotals == [f \in FieldSet |-> 0]

\* total += int(insight.get(f, 0))
AddField(t, f, v) ==
    LET c == ToNumber(Get(v))
    IN  IF c.raised THEN [raised |-> TRUE, t |-> t]
        ELSE [raised |-> FALSE, t |-> [t EXCEPT ![f] = @ + c.n]]

\* the six statements of the loop body, in order
RECURSIVE AddInsight(_, _, _)
AddInsight(t, insight, k) ==
    IF k > Len(Fields) THEN [raised |-> FALSE, t |-> t]
    ELSE LET r == AddField(t, Fields[k], insight[Fields[k]])
         IN  IF r.raised THEN r ELSE AddInsight(r.t, insight, k + 1)

\* for insight in insights: ...
RECURSIVE SumInsights(_, _, _)
SumInsights(t, insights, j) ==
    IF j > Len(insights) THEN [raised |-> FALSE, t |-> t]
    ELSE LET r == AddInsight(t, insights[j], 1)
         IN  IF r.raised THEN r ELSE SumInsights(r.t, insights, j + 1)

Zero == <<0, 1>>

\* derived metrics computed from the totals of n >= 1 insight records
Ctr(t) == IF t["impressions"] > 0
          THEN <<t["clicks"] * 100, t["impressions"]>> ELSE Zero
Cpm(t) == IF t["impressions"] > 0
          THEN <<t["spend"] * 1000, t["impressions"]>> ELSE Zero
Cpc(t) == IF t["clicks"] > 0 THEN <<t["spend"], t["clicks"]>> ELSE Zero
CostPerConversion(t) ==
    IF t["conversions"] > 0 THEN <<t["spend"], t["conversions"]>> ELSE Zero
ConversionRate_Unguarded(t) ==
    IF t["conversions"] > 0 THEN <<t["conversions"] * 100, t["clicks"]>> ELSE Zero

ConversionRate(t) ==
    IF t["conversions"] > 0
    THEN (IF t["clicks"] > 0 THEN <<t["conversions"] * 100, t["clicks"]>> ELSE Zero)
    ELSE Zero

Derive(t, n) ==
    [ impressions |-> t["impressions"], clicks |-> t["clicks"],
      spend |-> t["spend"], reach |-> t["reach"],
      conversions |-> t["conversions"],
      frequency |-> IF n > 0 THEN <<t["frequency"], n>> ELSE <<t["frequency"], 1>>,
      ctr |-> Ctr(t), cpc |-> Cpc(t), cpm |-> Cpm(t),
      cost_per_conversion |-> CostPerConversion(t),
      conversion_rate |-> ConversionRate(t) ]

\* the default metrics
ZeroSummary ==
    [ impressions |-> 0, clicks |-> 0, spend |-> 0, reach |-> 0,
      conversions |-> 0, frequency |-> Zero, ctr |-> Zero, cpc |-> Zero,
      cpm |-> Zero, cost_per_conversion |-> Zero, conversion_rate |-> Zero ]

\* what get_campaign_insights hands back: None or the 'data' list
NoInsights == [raised |-> FALSE, isNone |-> TRUE, data |-> <<>>]

\* if insights and len(insights) > 0
HasInsights(isNone, n) == ~isNone /\ n > 0

\* the metrics of one campaign
Metrics(ins) ==
    IF HasInsights(ins.isNone, Len(ins.data))
    THEN IF ins.isNone THEN [raised |-> TRUE, m |-> ZeroSummary]
         ELSE LET r == SumInsights(ZeroTotals, ins.data, 1)
              IN  IF r.raised THEN [raised |-> TRUE, m |-> ZeroSummary]
                  ELSE [raised |-> FALSE, m |-> Derive(r.t, Len(ins.data))]
    ELSE [raised |-> FALSE, m |-> ZeroSummary]

\* ------------------------------------------------------ provider payloads
Insight(imp, clk, spend, conv) ==
    [f \in FieldSet |->
        IF f = "impressions" THEN imp
        ELSE IF f = "clicks" THEN clk
        ELSE IF f = "spend" THEN spend
        ELSE IF f = "conversions" THEN conv
        ELSE Num(1)]

\* the 'data' lists the insights provider answers with in Spec
InsightData ==
    { <<>>,
      << Insight(Num(2), Num(1), Num(2), Num(1)) >>,
      << Insight(Num(1), Num(0), Num(1), Num(0)),
         Insight(Num(1), Absent, Num(2), Absent) >>,
      << Insight(Num(1), Null, Text, Num(0)) >> }

\* execute_action(METAADS_GET_INSIGHTS): raises, or returns a response
InsightResponses ==
    { [kind |-> k, data |-> <<>>] : k \in {"raise", "falsy", "nodata"} }
    \cup { [kind |-> "data", data |-> d] : d \in InsightData }

\* an element of the campaign list: a mapping with a daily_budget, or not
\* a mapping at all
Campaigns ==
    { [mapping |-> TRUE,  daily_budget |-> Num(2)],
      [mapping |-> TRUE,  daily_budget |-> Text],
      [mapping |-> FALSE, daily_budget |-> Absent] }

RECURSIVE SeqsUpTo(_, _)
SeqsUpTo(S, n) ==
    IF n = 0 THEN { <<>> }
    ELSE LET shorter == SeqsUpTo(S, n - 1)
         IN  shorter \cup { Append(q, x) : q \in shorter, x \in S }

\* execute_action(METAADS_GET_CAMPAIGNS): raises, or returns a response
CampaignResponses ==
    { [kind |-> k, data |-> <<>>] : k \in {"raise", "falsy", "nodata"} }
    \cup { [kind |-> "data", data |-> d] : d \in SeqsUpTo(Campaigns, MaxCampaigns) }

\* --------------------------------------------------------------- state
VARIABLES
    pc,              \* position of the run
    env,             \* COMPOSIO_TOKEN / SPREADSHEET_ID present
    now,             \* datetime.now()
    ticks,           \* clock ticks so far
    fetched,         \* kind of the campaigns response ("none" before)
    campaigns,       \* run_automation.campaigns
    i,               \* position of the loop of process_campaign_data
    processed_data,  \* process_campaign_data.processed_data
    threw,           \* campaigns whose try block raised
    calls,           \* the remote calls made, in order, with their outcome
    requests,        \* time_range of each insights request, in order
    written,         \* the values handed to the sheet update
    sheet,           \* the remote spreadsheet
    success,         \* run_automation's result
    exitCode,        \* sys.exit code (-1 while running)
    aggPc, aggLen, aggTotals, aggCount, aggField, aggLast, aggRow

runVars == <<pc, env, now, ticks, fetched, campaigns, i, processed_data,
             threw, calls, requests, written, sheet, success, exitCode>>
aggVars == <<aggPc, aggLen, aggTotals, aggCount, aggField, aggLast, aggRow>>
vars == <<runVars, aggVars>>

Header == [kind |-> "header", idx |-> 0, m |-> ZeroSummary]
Row(idx, m) == [kind |-> "row", idx |-> idx, m |-> m]

Call(op, id, out) == [op |-> op, id |-> id, out |-> out]

InitAgg ==
    /\ aggPc = "idle"
    /\ aggLen = 0
    /\ aggTotals = ZeroTotals
    /\ aggCount = 0
    /\ aggField = 1
    /\ aggLast = Absent
    /\ aggRow = ZeroSummary

InitRun ==
    /\ pc = "main"
    /\ env \in [token : BOOLEAN, sheet : BOOLEAN]
    /\ now \in [date : StartDates, tod : {0}]
    /\ ticks = 0
    /\ fetched = "none"
    /\ campaigns = <<>>
    /\ i = 0
    /\ processed_data = <<>>
    /\ threw = {}
    /\ calls = <<>>
    /\ requests = <<>>
    /\ written = <<>>
    /\ sheet = "old"
    /\ success = "unset"
    /\ exitCode = -1

Init == InitRun /\ InitAgg

\* ------------------------------------------------------------- the run
\* the wall clock moves while the run is in progress
Tick ==
    /\ pc # "exited"
    /\ ticks < MaxTicks
    /\ now' = AdvanceClock(now)
    /\ ticks' = ticks + 1
    /\ UNCHANGED <<pc, env, fetched, campaigns, i, processed_data, threw,
                   calls, requests, written, sheet, success, exitCode>>
    /\ UNCHANGED aggVars

\* main: MetaAdsAutomation() raises ValueError when a secret is missing
Main ==
    /\ pc = "main"
    /\ IF env.token /\ env.sheet
       THEN pc' = "init_client" /\ UNCHANGED exitCode
       ELSE pc' = "exited" /\ exitCode' = 1
    /\ UNCHANGED <<env, now, ticks, fetched, campaigns, i, processed_data,
                   threw, calls, requests, written, sheet, success>>
    /\ UNCHANGED aggVars

\* run_automation step 1
InitializeComposio ==
    /\ pc = "init_client"
    /\ \E ok \in BOOLEAN :
          IF ok THEN pc' = "fetch" /\ UNCHANGED success
          ELSE pc' = "returned" /\ success' = "false"
    /\ UNCHANGED <<env, now, ticks, fetched, campaigns, i, processed_data,
                   threw, calls, requests, written, sheet, exitCode>>
    /\ UNCHANGED aggVars

\* a response without 'data' reported as a failure
GetMetaAdsCampaigns_NoDataFails(resp) ==
    IF resp.kind = "data" THEN [isNone |-> FALSE, list |-> resp.data]
    ELSE [isNone |-> TRUE, list |-> <<>>]

\* get_meta_ads_campaigns: None on an exception, [] on a response that is
\* falsy or has no 'data', else the 'data' list
GetMetaAdsCampaigns(resp) ==
    IF resp.kind = "raise" THEN [isNone |-> TRUE, list |-> <<>>]
    ELSE IF resp.kind = "data" THEN [isNone |-> FALSE, list |-> resp.data]
    ELSE [isNone |-> FALSE, list |-> <<>>]

\* an empty campaign list reported as a failure
AfterFetch_EmptyFails(c) ==
    IF c.isNone \/ Len(c.list) = 0 THEN "failed" ELSE "process"

\* run_automation after step 2: where the run goes with the campaigns
AfterFetch(c) ==
    IF c.isNone THEN "failed"
    ELSE IF Len(c.list) = 0 THEN "done"
    ELSE "process"

\* run_automation step 2, and the start of process_campaign_data
FetchCampaigns ==
    /\ pc = "fetch"
    /\ \E resp \in CampaignResponses :
          LET c == GetMetaAdsCampaigns(resp)
              to == AfterFetch(c)
          IN  /\ fetched' = resp.kind
              /\ calls' = Append(calls, Call("fetchCampaigns", 0, resp.kind))
              /\ campaigns' = c.list
              /\ IF to = "process"
                 THEN /\ pc' = "process"
                      /\ i' = 1
                      /\ processed_data' = <<Header>>
                      /\ UNCHANGED success
                 ELSE /\ pc' = "returned"
                      /\ success' = IF to = "done" THEN "true" ELSE "false"
                      /\ UNCHANGED <<i, processed_data>>
    /\ UNCHANGED <<env, now, ticks, threw, requests, written, sheet, exitCode>>
    /\ UNCHANGED aggVars

\* the exception of the insights call let through to the caller
GetCampaignInsights_Propagates(resp) ==
    IF resp.kind = "data"
    THEN [raised |-> FALSE, isNone |-> FALSE, data |-> resp.data]
    ELSE IF resp.kind = "raise"
    THEN [raised |-> TRUE, isNone |-> TRUE, data |-> <<>>]
    ELSE NoInsights

\* get_campaign_insights: the 'data' of the response, None on an exception
\* and on a response that is falsy or has no 'data'
GetCampaignInsights(resp) ==
    IF resp.kind = "data"
    THEN [raised |-> FALSE, isNone |-> FALSE, data |-> resp.data]
    ELSE NoInsights

\* f"R$ {daily_budget/100:.2f}" if daily_budget else "N/A"
FormatBudgetRaises(v) == v.kind = "text"

\* the except clause of the loop reads campaign.get('name', 'Unknown')
HandlerRaises(campaign) == ~campaign.mapping

\* one iteration of the loop of process_campaign_data
ProcessCampaign ==
    /\ pc = "process"
    /\ LET campaign == campaigns[i]
           last == (i = Len(campaigns))
       IN  IF ~campaign.mapping
           THEN \* campaign.get raises before any call is made
                /\ threw' = threw \cup {i}
                /\ IF HandlerRaises(campaign)
                   THEN processed_data' = <<>> /\ pc' = "processed"
                        /\ UNCHANGED i
                   ELSE /\ UNCHANGED processed_data
                        /\ i' = i + 1
                        /\ pc' = IF last THEN "processed" ELSE "process"
                /\ UNCHANGED <<calls, requests>>
           ELSE \E resp \in InsightResponses :
                  LET ins == GetCampaignInsights(resp)
                      r   == IF ins.raised
                             THEN [raised |-> TRUE, m |-> ZeroSummary]
                             ELSE Metrics(ins)
                      bad == r.raised \/ FormatBudgetRaises(campaign.daily_budget)
                  IN  /\ calls' = Append(calls, Call("fetchInsights", i, resp.kind))
                      /\ requests' = Append(requests, TimeRange(now))
                      /\ threw' = IF bad THEN threw \cup {i} ELSE threw
                      /\ IF bad /\ HandlerRaises(campaign)
                         THEN processed_data' = <<>> /\ pc' = "processed"
                              /\ UNCHANGED i
                         ELSE /\ processed_data' =
                                   IF bad THEN processed_data
                                   ELSE Append(processed_data, Row(i, r.m))
                              /\ i' = i + 1
                              /\ pc' = IF last THEN "processed" ELSE "process"
    /\ UNCHANGED <<env, now, ticks, fetched, campaigns, written, sheet,
                   success, exitCode>>
    /\ UNCHANGED aggVars

\* run_automation step 3: if not processed_data
CheckProcessed ==
    /\ pc = "processed"
    /\ IF Len(processed_data) = 0
       THEN pc' = "returned" /\ success' = "false"
       ELSE pc' = "update" /\ UNCHANGED success
    /\ UNCHANGED <<env, now, ticks, fetched, campaigns, i, processed_data,
                   threw, calls, requests, written, sheet, exitCode>>
    /\ UNCHANGED aggVars

\* only an empty list counted as nothing to write
NothingToUpdate_EmptyOnly(data) == Len(data) = 0

\* update_google_sheets: if not data or len(data) <= 1
NothingToUpdate(data) == Len(data) <= 1

\* the exception of the clear call swallowed
AfterClear_Swallowed(out) == "write"

\* update_google_sheets after the clear call: its response is not looked at
AfterClear(out) == IF out = "raise" THEN "failed" ELSE "write"

\* update_google_sheets up to and including the clear call
ClearValues ==
    /\ pc = "update"
    /\ IF NothingToUpdate(processed_data)
       THEN /\ pc' = "returned"
            /\ success' = "false"
            /\ UNCHANGED <<calls, sheet>>
       ELSE \E out \in {"ok", "raise"} :
              /\ calls' = Append(calls, Call("clearRange", 0, out))
              /\ sheet' = IF out = "ok" THEN "cleared" ELSE sheet
              /\ IF AfterClear(out) = "write"
                 THEN pc' = "write" /\ UNCHANGED success
                 ELSE pc' = "returned" /\ success' = "false"
    /\ UNCHANGED <<env, now, ticks, fetched, campaigns, i, processed_data,
                   threw, requests, written, exitCode>>
    /\ UNCHANGED aggVars

\* the response of the update call not looked at
UpdateResult_Unchecked(out) == IF out = "raise" THEN "false" ELSE "true"

\* update_google_sheets after the update call
UpdateResult(out) == IF out = "ok" THEN "true" ELSE "false"

\* the update call, and run_automation step 4
UpdateValues ==
    /\ pc = "write"
    /\ \E out \in {"ok", "falsy", "raise"} :
          /\ calls' = Append(calls, Call("writeValues", 0, out))
          /\ written' = processed_data
          /\ sheet' = IF out = "ok" THEN "written" ELSE sheet
          /\ success' = UpdateResult(out)
    /\ pc' = "returned"
    /\ UNCHANGED <<env, now, ticks, fetched, campaigns, i, processed_data,
                   threw, requests, exitCode>>
    /\ UNCHANGED aggVars

\* main: sys.exit(0) on success, sys.exit(1) otherwise
Exit ==
    /\ pc = "returned"
    /\ pc' = "exited"
    /\ exitCode' = IF success = "true" THEN 0 ELSE 1
    /\ UNCHANGED <<env, now, ticks, fetched, campaigns, i, processed_data,
                   threw, calls, requests, written, sheet, success>>
    /\ UNCHANGED aggVars

Next ==
    \/ Tick
    \/ Main
    \/ InitializeComposio
    \/ FetchCampaigns
    \/ ProcessCampaign
    \/ CheckProcessed
    \/ ClearValues
    \/ UpdateValues
    \/ Exit

Spec == Init /\ [][Next]_vars

\* ------------------------------------- the try block, statement by statement
\* aggPc: "idle" before the insights are known, "sum" inside the summation
\* loop, "derive" after it, "row" when the metrics of the row are final,
\* "skipped" when a statement raised and the except clause dropped the
\* campaign.  aggLen is len(insights), aggCount the records summed so far,
\* aggField the next statement of the loop body, aggLast the value it read.

InitAggSpec ==
    /\ InitRun
    /\ env = [token |-> TRUE, sheet |-> TRUE]
    /\ now = [date |-> <<2024, 3, 4>>, tod |-> 0]
    /\ InitAgg

\* insights = self.get_campaign_insights(campaign_id), and the defaults
AggStart ==
    /\ aggPc = "idle"
    /\ \E isNone \in BOOLEAN, n \in 0..MaxInsights :
          /\ isNone => n = 0
          /\ aggLen' = n
          /\ aggPc' = IF HasInsights(isNone, n) THEN "sum" ELSE "row"
    /\ aggRow' = ZeroSummary
    /\ UNCHANGED <<aggTotals, aggCount, aggField, aggLast>>
    /\ UNCHANGED runVars

\* one "total += int(insight.get(field, 0))" of the loop body
AggField ==
    /\ aggPc = "sum"
    /\ \E v \in Values :
          LET r == AddField(aggTotals, Fields[aggField], v)
              endOfRecord == (aggField = Len(Fields))
          IN  /\ aggLast' = v
              /\ aggTotals' = r.t
              /\ IF r.raised
                 THEN aggPc' = "skipped" /\ UNCHANGED <<aggCount, aggField>>
                 ELSE /\ aggField' = IF endOfRecord THEN 1 ELSE aggField + 1
                      /\ aggCount' = IF endOfRecord THEN aggCount + 1 ELSE aggCount
                      /\ aggPc' = IF endOfRecord /\ aggCount + 1 = aggLen
                                  THEN "derive" ELSE "sum"
    /\ UNCHANGED <<aggLen, aggRow>>
    /\ UNCHANGED runVars

\* the derived metrics and the mean of the frequency
AggDerive ==
    /\ aggPc = "derive"
    /\ aggRow' = Derive(aggTotals, aggLen)
    /\ aggPc' = "row"
    /\ UNCHANGED <<aggLen, aggTotals, aggCount, aggField, aggLast>>
    /\ UNCHANGED runVars

NextAgg ==
    \/ AggStart
    \/ AggField
    \/ AggDerive

SpecAgg == InitAggSpec /\ [][NextAgg]_vars

\* ================================================================ claims
CallsOf(op) == {k \in DOMAIN calls : calls[k].op = op}
NoSheetCall == CallsOf("clearRange") = {} /\ CallsOf("writeValues") = {}
Returned == pc \in {"returned", "exited"}
RowsOf(data, idx) == {k \in DOMAIN data : data[k].kind = "row" /\ data[k].idx = idx}

\* C1: when the campaigns call answers with an empty 'data' list, the run
\* has returned success (exit code 0 once exited) and has made no insights,
\* clear or write call.
C1_ZeroCampaignsNoop ==
    (fetched = "data" /\ Len(campaigns) = 0) =>
        /\ Returned
        /\ success = "true"
        /\ (pc = "exited" => exitCode = 0)
        /\ CallsOf("fetchInsights") = {}
        /\ NoSheetCall
        /\ sheet = "old"

C1_Witness ==
    fetched = "data" /\ Len(campaigns) = 0 /\ pc = "exited" /\ exitCode = 0

\* C2: when at least one campaign was fetched and the processing of every
\* campaign raised, no clear or write call is ever made, the sheet keeps its
\* old content, and the run returns failure (exit code 1), never success.
C2_AllFailedIsFailure ==
    (Len(campaigns) >= 1 /\ threw = 1..Len(campaigns)) =>
        /\ NoSheetCall
        /\ sheet = "old"
        /\ pc # "write"
        /\ success # "true"
        /\ (Returned => success = "false")
        /\ (pc = "exited" => exitCode = 1)

C2_Witness ==
    /\ Len(campaigns) = 2 /\ threw = {1, 2}
    /\ processed_data = <<Header>>
    /\ pc = "exited" /\ exitCode = 1

RECURSIVE Survivors(_, _)
Survivors(k, n) ==
    IF k > n THEN <<>>
    ELSE IF k \in threw THEN Survivors(k + 1, n)
    ELSE <<k>> \o Survivors(k + 1, n)

IsHeaderAndSurvivors(data) ==
    LET want == Survivors(1, Len(campaigns))
    IN  /\ Len(data) = Len(want) + 1
        /\ data[1] = Header
        /\ \A k \in 1..Len(want) :
              data[k + 1].kind = "row" /\ data[k + 1].idx = want[k]

C5_SkipAndContinue ==
    (Len(campaigns) > 0 /\ pc \in {"processed", "update", "write", "returned", "exited"}) =>
        /\ IsHeaderAndSurvivors(processed_data)
        /\ (CallsOf("writeValues") # {} => IsHeaderAndSurvivors(written))
        /\ (Returned /\ threw # 1..Len(campaigns)
              /\ (\A k \in CallsOf("clearRange") \cup CallsOf("writeValues") :
                     calls[k].out = "ok")
            => success = "true")

\* C6 as stated: a campaign whose insights call raised has no row in the
\* processed data.
C6_FailedInsightsSkipped ==
    \A k \in CallsOf("fetchInsights") :
        calls[k].out = "raise" => RowsOf(processed_data, calls[k].id) = {}

\* C6 as amended: the step on which the insights call of campaign i raises
\* goes on to the next campaign, and it appends a row of all-zero metrics for
\* campaign i unless the formatting of that campaign's own budget raises.
C6_InsightFailureStep ==
    /\ pc = "process"
    /\ Len(calls') = Len(calls) + 1
    /\ calls'[Len(calls')] = Call("fetchInsights", i, "raise")

C6_FailedInsightsZeroRow ==
    [][ C6_InsightFailureStep =>
          /\ i' = i + 1
          /\ pc' = IF i = Len(campaigns) THEN "processed" ELSE "process"
          /\ processed_data' =
                IF campaigns[i].daily_budget.kind = "text" THEN processed_data
                ELSE Append(processed_data, Row(i, ZeroSummary)) ]_vars

C6_Witness ==
    \E k \in CallsOf("fetchInsights") :
        /\ calls[k].out = "raise"
        /\ \E r \in RowsOf(processed_data, calls[k].id) :
              processed_data[r].m = ZeroSummary
        /\ i > calls[k].id + 1

\* C7: the ratios of a finished row are those of the totals: non-negative,
\* with a positive denominator, 0 when the denominator of the ratio is 0,
\* and the quotient of the totals otherwise.
IsRatio(q) == q[1] >= 0 /\ q[2] > 0
RatioIs(q, num, den) == IsRatio(q) /\ den > 0 /\ q[1] * den = num * q[2]
RatioIsZero(q) == IsRatio(q) /\ q[1] = 0

C7_RatiosFromTotals ==
    aggPc = "row" =>
        LET t == aggTotals
            m == aggRow
        IN  /\ IF t["impressions"] = 0
               THEN RatioIsZero(m.ctr) /\ RatioIsZero(m.cpm)
               ELSE /\ RatioIs(m.ctr, t["clicks"] * 100, t["impressions"])
                    /\ RatioIs(m.cpm, t["spend"] * 1000, t["impressions"])
            /\ IF t["clicks"] = 0
               THEN RatioIsZero(m.cpc) /\ RatioIsZero(m.conversion_rate)
               ELSE /\ RatioIs(m.cpc, t["spend"], t["clicks"])
                    /\ RatioIs(m.conversion_rate, t["conversions"] * 100, t["clicks"])
            /\ IF t["conversions"] = 0
               THEN RatioIsZero(m.cost_per_conversion)
               ELSE RatioIs(m.cost_per_conversion, t["spend"], t["conversions"])

C7_Witness ==
    /\ aggPc = "row"
    /\ aggTotals["clicks"] = 0 /\ aggTotals["conversions"] > 0
    /\ aggTotals["impressions"] > 0 /\ aggTotals["spend"] > 0

\* C8 as stated: a statement of the summation loop that reads an absent or
\* malformed value adds 0 to its total and does not drop the campaign.
C8_ReadStep ==
    /\ aggPc = "sum"
    /\ <<aggPc', aggCount', aggField'>> # <<aggPc, aggCount, aggField>>

C8_MalformedCountsAsZero ==
    [][ (C8_ReadStep /\ aggLast'.kind # "num") =>
            (aggPc' # "skipped" /\ aggTotals' = aggTotals) ]_vars

\* C8 as amended: a statement that reads an absent value adds 0 to its total
\* and does not drop the campaign; a statement that reads a value that is
\* present but null or non-numeric text raises, and the campaign is dropped.
C8_AbsentCountsAsZero ==
    [][ C8_ReadStep =>
          /\ aggLast'.kind = "absent" =>
                (aggPc' # "skipped" /\ aggTotals' = aggTotals)
          /\ aggLast'.kind \in {"null", "text"} <=> aggPc' = "skipped" ]_vars

C8_Witness ==
    aggPc = "row" /\ aggLen > 0 /\ aggLast = Absent

\* C9: the time range of every insights request covers exactly 7 calendar
\* dates, both ends counted.
C9_SevenDatesInclusive ==
    \A k \in DOMAIN requests :
        DateCount(requests[k].since, requests[k].until, 14) = 7

\* C10: when the campaigns call returns a response that is falsy or has no
\* 'data', the run behaves as for an empty campaign list: it has returned
\* success (exit code 0 once exited) and made no insights, clear or write
\* call; a run that failed on the campaign list had the call raise.
C10_NoDataIsNoop ==
    /\ fetched \in {"falsy", "nodata"} =>
          /\ Returned
          /\ success = "true"
          /\ (pc = "exited" => exitCode = 0)
          /\ CallsOf("fetchInsights") = {}
          /\ NoSheetCall
          /\ sheet = "old"
    /\ (fetched # "none" /\ Len(campaigns) = 0 /\ success = "false")
          => fetched = "raise"

C10_Witness ==
    fetched \in {"falsy", "nodata"} /\ pc = "exited" /\ exitCode = 0

====
